---- MODULE Spec2Model ----
(***************************************************************************)
(* A model of src/src/GenerateFragments.ts: the GenerateFragments command  *)
(* of graphql-cli-generate-fragments.                                      *)
(*                                                                         *)
(* Text is modelled as a sequence of tokens (a coarse alphabet): every     *)
(* literal of the source ("fragment", " ", "...", "Deep", "Nesting", "No", *)
(* "Full", "Public", "Admin", "Listing", "\n", "{", "}") is a token or a   *)
(* sequence of tokens, and an identifier is a sequence of tokens too, so   *)
(* that the type "UserAdmin" is <<"User", "Admin">>: concatenation,        *)
(* split(' '), indexOf and the regular-expression rewrites of the source   *)
(* are computed on these sequences as the source computes them on          *)
(* characters.                                                             *)
(***************************************************************************)
EXTENDS Naturals, Sequences, FiniteSets, TLC

VARIABLES
    argv,            \* this.argv: the command line of the run
    config,          \* this.config: the projects of the configuration, in key order
    pc,              \* the position of the run
    projectIdx,      \* the index (in Object.keys(projects)) of this.project
    disk,            \* the file system: the files read and written
    savedConfigs,    \* what this.config.saveConfig was handed, in order
    thrown,          \* the error that left handle(), "" when none
    schemaContents,  \* makeFragments: the parsed schema
    generator,       \* makeFragments: the generator label
    modelConfigs,    \* makeFragments: the tier configuration, or Undefined
    fragments,       \* makeFragments: what it returned or threw
    fieldName,       \* printField: the field's name
    field,           \* printField: the field (its type reference)
    fragmentType,    \* printField: the fragment mode
    printed          \* printField: what it returned or threw

vars == <<argv, config, pc, projectIdx, disk, savedConfigs, thrown,
          schemaContents, generator, modelConfigs, fragments,
          fieldName, field, fragmentType, printed>>

handleVars == <<argv, config, projectIdx, disk, savedConfigs, thrown>>
makeVars == <<schemaContents, generator, modelConfigs, fragments>>
printVars == <<fieldName, field, fragmentType, printed>>

-----------------------------------------------------------------------------
(* Bounds of the model. *)

\* The most List wrappers around a drawn field's named type.
MaxLists == 1

\* The most fields of the type Post of a drawn schema.
MaxFields == 2

\* The most tiers of the tier-configuration entry of Post.
MaxTiers == 2

-----------------------------------------------------------------------------
(* Text. *)

NL == "\n"
SP == " "

\* JavaScript's undefined, where a name or a text may stand.
Undefined == <<"undefined">>

RECURSIVE Spaces(_)
Spaces(n) == IF n = 0 THEN <<>> ELSE <<SP>> \o Spaces(n - 1)

\* indentedLine(level): a line break and two spaces per level.
indentedLine(level) == <<NL>> \o Spaces(2 * level)

\* arr.join(sep) on a sequence of texts.
RECURSIVE Join(_, _)
Join(arr, sep) ==
    IF arr = <<>> THEN <<>>
    ELSE IF Len(arr) = 1 THEN arr[1]
    ELSE arr[1] \o sep \o Join(Tail(arr), sep)

\* Whether text s starts with text p.
StartsWith(s, p) == Len(s) >= Len(p) /\ SubSeq(s, 1, Len(p)) = p

\* str.indexOf(p) !== -1
RECURSIVE Contains(_, _)
Contains(s, p) ==
    IF Len(s) < Len(p) THEN FALSE
    ELSE StartsWith(s, p) \/ Contains(Tail(s), p)

\* str.split(' ')[0]: the text before the first space.
RECURSIVE SplitFirst(_)
SplitFirst(s) ==
    IF s = <<>> \/ Head(s) = SP THEN <<>>
    ELSE <<Head(s)>> \o SplitFirst(Tail(s))

\* str.replace(RegExp(p, 'g'), r) for a pattern p without metacharacters:
\* every occurrence of p, found from left to right, becomes r.
RECURSIVE ReplaceAll(_, _, _)
ReplaceAll(s, p, r) ==
    IF Len(s) < Len(p) \/ p = <<>> THEN s
    ELSE IF StartsWith(s, p) THEN r \o ReplaceAll(SubSeq(s, Len(p) + 1, Len(s)), p, r)
    ELSE <<Head(s)>> \o ReplaceAll(Tail(s), p, r)

\* arr.indexOf(x) !== -1 on an array
InArray(arr, x) == \E i \in 1..Len(arr) : arr[i] = x

-----------------------------------------------------------------------------
(* fragmentType (lines 224-228): the suffix of each fragment mode. *)

DEFAULT == <<>>
NO_RELATIONS == <<"No", "Nesting">>
DEEP == <<"Deep", "Nesting">>

FragmentTypes == {DEFAULT, NO_RELATIONS, DEEP}

-----------------------------------------------------------------------------
(* The schema: what parse() and buildASTSchema() give makeFragments.       *)
(* A type is [name, kind, fields]; a field is [name, w, t], where w is the *)
(* sequence of its wrappers from the outermost in and t the named type.    *)

Wrappers == {"List", "NonNull"}

\* A field definition of the schema.
FieldDef(name, w, t) == [name |-> name, w |-> w, t |-> t]

\* A named type of the schema's type map.
TypeDef(name, kind, fields) == [name |-> name, kind |-> kind, fields |-> fields]

\* ast.getType(name), Undefined for a name the schema does not define.
getType(ast, name) ==
    IF \E i \in 1..Len(ast.types) : ast.types[i].name = name
    THEN ast.types[CHOOSE i \in 1..Len(ast.types) : ast.types[i].name = name]
    ELSE TypeDef(Undefined, "undefined", <<>>)

\* ast.getType(name).constructor.name
NamedConstructor(ast, name) == getType(ast, name).kind

\* type.constructor.name of a field's type: the class of its outermost wrapper,
\* or of the named type itself.
ConstructorName(ast, w, t) ==
    IF w = <<>> THEN NamedConstructor(ast, t)
    ELSE IF Head(w) = "List" THEN "GraphQLList"
    ELSE "GraphQLNonNull"

-----------------------------------------------------------------------------
(* The values printField moves through its variable `field`: the           *)
(* GraphQLField it is given, then nodes of the field's AST type.           *)

\* The GraphQLField of a field definition.
GraphQLField(fd) == [tag |-> "GraphQLField", name |-> fd.name, w |-> fd.w, t |-> fd.t]

\* A TypeNode of the AST: NamedType, ListType or NonNullType.
TypeNode(w, t) == [tag |-> "TypeNode", name |-> <<>>, w |-> w, t |-> t]

NoNode == [tag |-> "undefined", name |-> <<>>, w |-> <<>>, t |-> <<>>]

\* node.kind
NodeKind(n) ==
    IF n.tag # "TypeNode" THEN "undefined"
    ELSE IF n.w = <<>> THEN "NamedType"
    ELSE IF Head(n.w) = "List" THEN "ListType"
    ELSE "NonNullType"

\* node.type: the wrapped node of a ListType or NonNullType node, undefined
\* for a NamedType node.
NodeType(n) ==
    IF n.tag = "TypeNode" /\ n.w # <<>> THEN TypeNode(Tail(n.w), n.t) ELSE NoNode

\* Whether node.name is defined: only a NamedType node has a name.
HasName(n) == n.tag = "TypeNode" /\ n.w = <<>>

\* field.astNode.type of a GraphQLField
AstType(f) == TypeNode(f.w, f.t)

\* What a function returned: a string, null, or a thrown error.
Returned(s) == [kind |-> "string", s |-> s]
Null == [kind |-> "null", s |-> <<>>]
Throw(e) == [kind |-> "throw", s |-> <<e>>]

TypeError == "TypeError"

-----------------------------------------------------------------------------
(* printField (lines 443-515). *)

\* Lines 458-467: a GraphQLList field is replaced by the node two levels
\* into the list when there is one, else one level in, and the named type
\* is looked up by that node's name; a node without a name throws.
ListStep(ast, f, ctor) ==
    IF ctor # "GraphQLList" THEN [f |-> f, ctor |-> ctor, err |-> FALSE]
    ELSE LET inner == NodeType(AstType(f))
             g == IF NodeType(inner) # NoNode THEN NodeType(inner) ELSE inner
         IN  IF ~HasName(g) THEN [f |-> g, ctor |-> "undefined", err |-> TRUE]
             ELSE [f |-> g, ctor |-> NamedConstructor(ast, g.t), err |-> FALSE]

\* field.type.name && ast.getType(field.type.name.value).constructor.name || null
\* for an AST node `n` standing in `field` (lines 471-474 and 477-480).
InnerConstructor(ast, n) ==
    IF HasName(NodeType(n)) THEN NamedConstructor(ast, NodeType(n).t) ELSE "null"

\* Lines 469-482: a GraphQLNonNull field is replaced by its AST type and the
\* named type is looked for one level in, then once more one level further.
NonNullStep(ast, s) ==
    IF s.err \/ ~(s.ctor = "GraphQLNonNull" \/ NodeKind(s.f) = "NonNullType") THEN s
    ELSE IF s.f.tag # "GraphQLField" THEN [f |-> s.f, ctor |-> "undefined", err |-> TRUE]
    ELSE LET n1 == AstType(s.f)
             c1 == InnerConstructor(ast, n1)
         IN  IF c1 # "null" THEN [f |-> n1, ctor |-> c1, err |-> FALSE]
             ELSE LET n2 == NodeType(n1)
                  IN  IF NodeType(n2) = NoNode
                      THEN [f |-> n2, ctor |-> "undefined", err |-> TRUE]
                      ELSE [f |-> n2, ctor |-> InnerConstructor(ast, n2), err |-> FALSE]

\* Lines 495-497: the name of the type an object field refers to.
TargetTypeName(f) ==
    IF f.tag = "GraphQLField" THEN f.t
    ELSE IF HasName(f) THEN f.t
    ELSE NodeType(f).t

\* SpreadSuffix with a plausible bug: the deep suffix in every mode.
SpreadSuffixAlwaysDeep(ft) == DEEP

\* Lines 504-508: the suffix of the spread's target.
SpreadSuffix(ft) ==
    IF ft = DEEP THEN DEEP
    ELSE IF ft = DEFAULT THEN NO_RELATIONS
    ELSE DEFAULT

\* printConstructor with a plausible bug: the mode not looked at, an object
\* field printed with the deep spread in every mode.
printConstructorWithoutMode(name, ft, s) ==
    IF s.err THEN Throw(TypeError)
    ELSE IF s.ctor \in {"GraphQLScalarType", "GraphQLEnumType"} THEN Returned(name)
    ELSE IF s.ctor = "GraphQLObjectType" THEN
        Returned(name \o <<SP, "{">> \o indentedLine(2) \o <<"...">>
                 \o TargetTypeName(s.f) \o DEEP \o indentedLine(1) \o <<"}">>)
    ELSE Null

\* Lines 484-514: what is printed for the field and the constructor name
\* the steps above ended with.
printConstructor(name, ft, s) ==
    IF s.err THEN Throw(TypeError)
    ELSE IF s.ctor \in {"GraphQLScalarType", "GraphQLEnumType"} THEN Returned(name)
    ELSE IF s.ctor = "GraphQLObjectType" THEN
        IF ft = NO_RELATIONS THEN Null
        ELSE Returned(name \o <<SP, "{">> \o indentedLine(2) \o <<"...">>
                      \o TargetTypeName(s.f) \o SpreadSuffix(ft)
                      \o indentedLine(1) \o <<"}">>)
    ELSE Null

printField(name, f, ast, ft) ==
    printConstructor(name, ft,
        NonNullStep(ast, ListStep(ast, f, ConstructorName(ast, f.w, f.t))))

-----------------------------------------------------------------------------
(* generateFragments (lines 431-441): the printed fields of a type, those  *)
(* printField returned null for dropped; a throw of printField leaves it.  *)

Array(items) == [kind |-> "array", items |-> items]

printFields(type, ast, ft) ==
    [i \in 1..Len(type.fields) |->
        printField(type.fields[i].name, GraphQLField(type.fields[i]), ast, ft)]

\* .filter(x => x != null) on the results of a map, or the throw that left
\* the map (lines 279, 297 and 440).
withoutNull(rs) ==
    LET kept == SelectSeq(rs, LAMBDA r : r.kind # "null")
    IN  IF \E i \in 1..Len(rs) : rs[i].kind = "throw" THEN Throw(TypeError)
        ELSE Array([i \in 1..Len(kept) |-> kept[i].s])

generateFragments(type, ast, ft) == withoutNull(printFields(type, ast, ft))

-----------------------------------------------------------------------------
(* makeFragments (lines 230-429). *)

Fragment(name, fragment) == [name |-> name, fragment |-> fragment]

\* Lines 234-256: the object types of the type map that are neither
\* introspection types nor root types, in the type map's order.
objectTypeNames(ast) ==
    LET keep(t) == /\ t.kind = "GraphQLObjectType"
                   /\ ~StartsWith(t.name, <<"__">>)
                   /\ t.name # ast.query
                   /\ (ast.mutation # Undefined => t.name # ast.mutation)
                   /\ (ast.subscription # Undefined => t.name # ast.subscription)
        kept == SelectSeq(ast.types, keep)
    IN  [i \in 1..Len(kept) |-> kept[i].name]

Reverse(s) == [i \in 1..Len(s) |-> s[Len(s) + 1 - i]]

\* Lines 257-262: the comparator answers 1 for every pair (all the names are
\* of "GraphQLObjectType"), which is no consistent order: what sort() makes
\* of it is the engine's choice. An insertion sort reverses the array, a
\* merge of ascending runs leaves it as it is.
sortOutcomes(names) == {names, Reverse(names)}

\* Lines 274-277 and 290-295: fragment <name><suffix> on <name> { fields }
fragmentText(name, suffix, fields) ==
    <<"fragment", SP>> \o name \o suffix \o <<SP, "on", SP>> \o name \o <<SP, "{", NL, SP, SP>>
    \o Join(fields, indentedLine(1)) \o <<NL, "}", NL>>

\* modeFragmentOf with a plausible bug: no check of fields.length.
modeFragmentNoSkip(typeName, ft, fields) ==
    IF fields.kind = "throw" THEN fields
    ELSE [kind |-> "fragment", s |-> Fragment(typeName, fragmentText(typeName, ft, fields.items))]

\* Lines 270-278 and 285-296: null for a type without printed fields, else
\* its fragment.
modeFragmentOf(typeName, ft, fields) ==
    IF fields.kind = "throw" THEN fields
    ELSE IF Len(fields.items) = 0 THEN Null
    ELSE [kind |-> "fragment", s |-> Fragment(typeName, fragmentText(typeName, ft, fields.items))]

\* The map over typeNames of lines 266-279 (ft = DEFAULT) and 281-297
\* (ft = NO_RELATIONS).
modeFragment(typeName, ast, ft) ==
    modeFragmentOf(typeName, ft, generateFragments(getType(ast, typeName), ast, ft))

\* typeNames.map(...).filter(frag => frag != null), or the first throw.
modeFragments(typeNames, ast, ft) ==
    withoutNull([i \in 1..Len(typeNames) |-> modeFragment(typeNames[i], ast, ft)])

standardFragments(typeNames, ast) == modeFragments(typeNames, ast, DEFAULT)
noRelationsFragments(typeNames, ast) == modeFragments(typeNames, ast, NO_RELATIONS)

(* The tier configuration: undefined, or the entries of the parsed JSON    *)
(* object in the order of its keys, each [model, tiers], the tiers of an   *)
(* entry in the order of its keys, each [suffix, allowlist].               *)

NoModelConfigs == [defined |-> FALSE, entries |-> <<>>]
ModelConfigs(entries) == [defined |-> TRUE, entries |-> entries]

Tier(suffix, allowlist) == [suffix |-> suffix, allowlist |-> allowlist]
ModelConfig(model, tiers) == [model |-> model, tiers |-> tiers]

PublicListing == <<"Public", "Listing">>
Public == <<"Public">>
AdminListing == <<"Admin", "Listing">>
Admin == <<"Admin">>
Full == <<"Full">>

\* Object.keys(modelConfigs), line 298
modelNamesOf(mc) == [i \in 1..Len(mc.entries) |-> mc.entries[i].model]

\* modelConfigs && modelConfigs[name], line 307
hasModelConfig(mc, name) ==
    mc.defined /\ \E i \in 1..Len(mc.entries) : mc.entries[i].model = name

modelConfigOf(mc, name) ==
    mc.entries[CHOOSE i \in 1..Len(mc.entries) : mc.entries[i].model = name]

\* Lines 327-330, 333-336, 348-351: for every model name in turn, every
\* spread ...<model>DeepNesting becomes ...<model><listing>.
RECURSIVE rewriteModelSpreads(_, _, _)
rewriteModelSpreads(text, modelNames, listing) ==
    IF modelNames = <<>> THEN text
    ELSE rewriteModelSpreads(
            ReplaceAll(text, <<"...">> \o Head(modelNames) \o DEEP,
                             <<"...">> \o Head(modelNames) \o listing),
            Tail(modelNames), listing)

\* rewriteDeepNesting with a plausible bug: the rewrite left out.
rewriteDeepNestingLeftOut(text) == text

\* Lines 331, 337, 352: fragment.replace(/DeepNesting/g, 'Full')
rewriteDeepNesting(text) == ReplaceAll(text, DEEP, Full)

\* rewriteFragment with a plausible bug: DeepNesting rewritten to Full
\* before the spreads of the models are.
rewriteFragmentFullFirst(text, modelNames, listing) ==
    rewriteModelSpreads(ReplaceAll(text, DEEP, Full), modelNames, listing)

\* Lines 326-338 and 348-352: the spreads of the models first, then what is
\* left of DeepNesting.
rewriteFragment(text, modelNames, listing) ==
    rewriteDeepNesting(rewriteModelSpreads(text, modelNames, listing))

\* Lines 310-322: the spread a tier's fragment starts with, and the empty
\* string pushed after it.
spreadFragments(name, suffix) ==
    LET first == IF suffix = Admin THEN <<(<<"...">> \o name \o AdminListing)>>
                 ELSE IF suffix = AdminListing THEN <<(<<"...">> \o name \o PublicListing)>>
                 ELSE IF suffix = Public THEN <<(<<"...">> \o name \o PublicListing)>>
                 ELSE <<>>
    IN  IF Len(first) # 0 THEN first \o << <<>> >> ELSE first

\* allowedFields with a plausible bug: the whole printed field, not its
\* first word, is looked up in the allow-list.
allowedFieldsWholeField(fields, allowlist) ==
    SelectSeq(fields, LAMBDA f : InArray(allowlist, f))

\* Line 324: fields.filter(f => allowlist.indexOf(f.split(' ')[0]) !== -1)
allowedFields(fields, allowlist) ==
    SelectSeq(fields, LAMBDA f : InArray(allowlist, SplitFirst(f)))

\* Line 326: suffix.indexOf('Admin') === -1 chooses the listing of the spreads
listingOf(suffix) == IF Contains(suffix, Admin) THEN AdminListing ELSE PublicListing

\* Lines 308-343: the fragment of one tier of a type.
tierFragment(name, tier, fields, modelNames) ==
    LET text == <<"fragment", SP>> \o name \o tier.suffix \o <<SP, "on", SP>> \o name
                \o <<SP, "{", NL, SP, SP>>
                \o Join(spreadFragments(name, tier.suffix), indentedLine(1))
                \o Join(allowedFields(fields, tier.allowlist), indentedLine(1))
                \o <<NL, "}">>
    IN  Fragment(name \o tier.suffix, rewriteFragment(text, modelNames, listingOf(tier.suffix)))

\* Lines 345-356: the fragment of a type without an entry.
fullFragment(name, fields, modelNames) ==
    LET text == <<"fragment", SP>> \o name \o Full \o <<SP, "on", SP>> \o name
                \o <<SP, "{", NL, SP, SP>> \o Join(fields, indentedLine(1)) \o <<NL, "}">>
    IN  Fragment(name \o Full, rewriteFragment(text, modelNames, PublicListing))

\* Lines 305-357: the deep fragments of a type with the printed fields
\* `fields`: none for a type without printed fields, one per tier for a type
\* with an entry, else <name>Full.
deepFragmentsFrom(typeName, mc, modelNames, fields) ==
    IF fields.kind = "throw" THEN fields
    ELSE IF Len(fields.items) = 0 THEN Array(<<>>)
    ELSE IF hasModelConfig(mc, typeName) THEN
        LET tiers == modelConfigOf(mc, typeName).tiers
        IN  Array([i \in 1..Len(tiers) |->
                    tierFragment(typeName, tiers[i], fields.items, modelNames)])
    ELSE Array(<<fullFragment(typeName, fields.items, modelNames)>>)

\* Lines 299-357: the deep fragments of one type.
deepFragmentsOf(typeName, ast, mc, modelNames) ==
    deepFragmentsFrom(typeName, mc, modelNames,
                      generateFragments(getType(ast, typeName), ast, DEEP))

\* flatten(), lines 38-48
RECURSIVE flatten(_)
flatten(arr) == IF arr = <<>> THEN <<>> ELSE Head(arr) \o flatten(Tail(arr))

\* flatten() on the results of a map, or the throw that left the map.
flattened(rs) ==
    IF \E i \in 1..Len(rs) : rs[i].kind = "throw" THEN Throw(TypeError)
    ELSE Array(flatten([i \in 1..Len(rs) |-> rs[i].items]))

\* Lines 298-358. Object.keys(undefined) throws.
deepFragments(typeNames, ast, mc) ==
    IF ~mc.defined THEN Throw(TypeError)
    ELSE flattened([i \in 1..Len(typeNames) |->
                      deepFragmentsOf(typeNames[i], ast, mc, modelNamesOf(mc))])

(* Lines 361-428: the three renderings. *)

JsBanner == <<"// THIS FILE HAS BEEN AUTO-GENERATED BY \"graphql-cli-generate-fragments\"", NL,
              "// DO NOT EDIT THIS FILE DIRECTLY", NL>>
GraphqlBanner == <<"# THIS FILE HAS BEEN AUTO-GENERATED BY \"graphql-cli-generate-fragments\"", NL,
                   "# DO NOT EDIT THIS FILE DIRECTLY", NL>>

\* The delimiter of a JavaScript template literal.
BackTick == "(backtick)"

jsExports(frags, suffix) ==
    flatten([i \in 1..Len(frags) |->
        <<NL, "export const", SP>> \o frags[i].name \o suffix \o <<"Fragment", SP, "=", SP, BackTick>>
        \o frags[i].fragment \o <<BackTick, NL>>])

graphqlBlocks(frags) == flatten([i \in 1..Len(frags) |-> <<NL>> \o frags[i].fragment])

jsDocument(std, norel, deep) ==
    JsBanner \o jsExports(std, DEFAULT) \o <<NL>> \o jsExports(norel, NO_RELATIONS) \o <<NL>>
    \o jsExports(deep, DEEP) \o <<NL>>

graphqlDocument(std, norel, deep) ==
    GraphqlBanner
    \o <<NL, "# Standard Fragments", NL, "# Nested fragments will spread one layer deep", NL, NL>>
    \o graphqlBlocks(std)
    \o <<NL, NL, "# No Relational objects", NL, "# No nested fragments", NL, NL>>
    \o graphqlBlocks(norel)
    \o <<NL, NL, "# Deeply nested Fragments", NL, "# Will include n nested fragments", NL,
         "# If there is a recursive relation you will receive a", NL,
         "# \"Cannot spread fragment within itself\" error when using", NL, NL>>
    \o graphqlBlocks(deep) \o <<NL>>

Star == <<"*">>

\* What makeFragments did: it threw, or it returned `items`; the three
\* lists it built on the way are kept beside what it returned.
Made(items, std, norel, deep) ==
    [kind |-> "array", items |-> items,
     standardFragments |-> std, noRelationsFragments |-> norel, deepFragments |-> deep]
MakeThrew == [kind |-> "throw", items |-> <<>>,
              standardFragments |-> <<>>, noRelationsFragments |-> <<>>, deepFragments |-> <<>>]

\* Lines 361-428: what makeFragments returns for the three lists.
renderFragments(gen, std, norel, deep) ==
    IF std.kind = "throw" \/ norel.kind = "throw" \/ deep.kind = "throw" THEN MakeThrew
    ELSE IF gen = "js"
        THEN Made(<<Fragment(Star, jsDocument(std.items, norel.items, deep.items))>>,
                  std.items, norel.items, deep.items)
    ELSE IF gen = "multi-file-graphql"
        THEN Made(deep.items, std.items, norel.items, deep.items)
    ELSE Made(<<Fragment(Star, graphqlDocument(std.items, norel.items, deep.items))>>,
              std.items, norel.items, deep.items)

\* makeFragments on the outcome typeNames of the sort of lines 257-262.
makeFragmentsOf(typeNames, ast, gen, mc) ==
    renderFragments(gen, standardFragments(typeNames, ast),
                    noRelationsFragments(typeNames, ast), deepFragments(typeNames, ast, mc))

\* The outcomes of makeFragments(schemaContents, generator, modelConfigs).
makeFragments(ast, gen, mc) ==
    {makeFragmentsOf(tn, ast, gen, mc) : tn \in sortOutcomes(objectTypeNames(ast))}

-----------------------------------------------------------------------------
(* The schemas of the model. *)

ID == <<"ID">>
Role == <<"Role">>
Node == <<"Node">>
Query == <<"Query">>
Mutation == <<"Mutation">>
User == <<"User">>
Post == <<"Post">>
UserAdmin == <<"User", "Admin">>
IntrospectionType == <<"__", "Type">>

\* The type map of a schema whose object types are objs: the root types, the
\* object types, a scalar, an enum, an interface and an introspection type.
Schema(objs) ==
    [types |-> <<TypeDef(Query, "GraphQLObjectType", <<FieldDef(<<"posts">>, <<"List">>, Post)>>),
                 TypeDef(Mutation, "GraphQLObjectType", <<FieldDef(<<"publish">>, <<>>, Post)>>)>>
               \o objs \o
               <<TypeDef(ID, "GraphQLScalarType", <<>>),
                 TypeDef(Role, "GraphQLEnumType", <<>>),
                 TypeDef(Node, "GraphQLInterfaceType", <<FieldDef(<<"id">>, <<>>, ID)>>),
                 TypeDef(IntrospectionType, "GraphQLObjectType", <<FieldDef(<<"kind">>, <<>>, Role)>>)>>,
     query |-> Query, mutation |-> Mutation, subscription |-> Undefined]

\* Every nesting of wrappers with at most n List wrappers; NonNull never
\* wraps NonNull: T, T!, [T], [T!], [T]!, [T!]! for n = 1.
RECURSIVE Wrappings(_)
Wrappings(n) ==
    IF n = 0 THEN {<<>>, <<"NonNull">>}
    ELSE LET W == Wrappings(n - 1)
         IN  W \cup {<<"List">> \o w : w \in W} \cup {<<"NonNull", "List">> \o w : w \in W}

-----------------------------------------------------------------------------
(* printField on its own: SpecField draws a field and a mode, and          *)
(* PrintField applies printField to them.                                  *)

Comment == <<"Comment">>

FieldSchema ==
    Schema(<<TypeDef(Comment, "GraphQLObjectType", <<FieldDef(<<"id">>, <<"NonNull">>, ID)>>),
             TypeDef(Post, "GraphQLObjectType", <<FieldDef(<<"id">>, <<"NonNull">>, ID)>>)>>)

FieldTargets == {ID, Role, Node, Comment, Query}

NotRun == [kind |-> "none", s |-> <<>>]
NotMade == [kind |-> "none", items |-> <<>>,
            standardFragments |-> <<>>, noRelationsFragments |-> <<>>, deepFragments |-> <<>>]

IdleHandle ==
    /\ argv = Undefined /\ config = <<>> /\ projectIdx = 0 /\ disk = <<>>
    /\ savedConfigs = <<>> /\ thrown = ""

IdleMake ==
    /\ generator = "" /\ modelConfigs = NoModelConfigs /\ fragments = NotMade

InitField ==
    /\ pc = "printField"
    /\ IdleHandle /\ IdleMake
    /\ schemaContents = FieldSchema
    /\ fieldName \in {<<"comments">>}
    /\ field \in {GraphQLField(FieldDef(fieldName, w, t)) : w \in Wrappings(MaxLists), t \in FieldTargets}
    /\ fragmentType \in FragmentTypes
    /\ printed = NotRun

PrintField ==
    /\ pc = "printField"
    /\ printed' = printField(fieldName, field, schemaContents, fragmentType)
    /\ pc' = "printed"
    /\ UNCHANGED <<handleVars, makeVars, fieldName, field, fragmentType>>

NextField == PrintField

SpecField == InitField /\ [][NextField]_vars

-----------------------------------------------------------------------------
(* makeFragments on its own: SpecMake draws a schema and a tier            *)
(* configuration, and MakeFragments applies makeFragments to them.         *)

\* The names of the fields of a drawn type, by position.
FieldNames == << <<"id">>, <<"author">>, <<"comments">>, <<"owner">> >>

Ref(w, t) == [w |-> w, t |-> t]

\* The types a drawn field of Post may have: ID!, [ID!]! and [User!].
PostRefs ==
    {Ref(<<"NonNull">>, ID), Ref(<<"NonNull", "List", "NonNull">>, ID),
     Ref(<<"List", "NonNull">>, User)}

\* Every sequence of 1..n elements of S.
RECURSIVE SeqsUpTo(_, _)
SeqsUpTo(S, n) ==
    IF n = 0 THEN {<<>>}
    ELSE LET R == SeqsUpTo(S, n - 1)
         IN  R \cup {Append(r, x) : r \in {q \in R : Len(q) = n - 1}, x \in S}

FieldsOf(refs) == [i \in 1..Len(refs) |-> FieldDef(FieldNames[i], refs[i].w, refs[i].t)]

PostFieldLists == {FieldsOf(refs) : refs \in SeqsUpTo(PostRefs, MaxFields) \ {<<>>}}

UserFieldLists ==
    {<<FieldDef(<<"id">>, <<"NonNull">>, ID)>>, <<FieldDef(<<"post">>, <<>>, Post)>>}

\* The schemas drawn: User with a scalar or with a relation only, Post with
\* 1..MaxFields drawn fields, and UserAdmin.
MakeSchemas ==
    {Schema(<<TypeDef(User, "GraphQLObjectType", uf), TypeDef(Post, "GraphQLObjectType", pf),
              TypeDef(UserAdmin, "GraphQLObjectType", <<FieldDef(<<"id">>, <<>>, ID)>>)>>) :
        uf \in UserFieldLists, pf \in PostFieldLists}

\* The tier labels: the four of ModelFragmentType (line 33) and one other.
Editor == <<"Editor">>
TierLabels == {PublicListing, Public, AdminListing, Admin, Editor}

AllowLists == << <<(<<"id">>)>>, <<(<<"author">>)>>, << <<"author">>, <<"id">> >> >>

Distinct(q) == \A i, j \in 1..Len(q) : i # j => q[i] # q[j]

\* The entries of Post: every sequence of 1..MaxTiers distinct labels, the
\* allow-lists taken in turn from AllowLists.
PostEntries ==
    {<<ModelConfig(Post, [i \in 1..Len(ls) |-> Tier(ls[i], AllowLists[((i - 1) % 3) + 1])])>> :
        ls \in {q \in SeqsUpTo(TierLabels, MaxTiers) : q # <<>> /\ Distinct(q)}}

\* The entry of User: the tiers PublicListing and Admin.
UserEntries ==
    {<<ModelConfig(User, <<Tier(PublicListing, <<(<<"id">>)>>),
                           Tier(Admin, << <<"id">>, <<"post">> >>)>>)>>}

MakeConfigs ==
    {NoModelConfigs}
    \cup {ModelConfigs(p \o u) : p \in PostEntries \cup {<<>>}, u \in UserEntries \cup {<<>>}}

IdlePrint ==
    /\ fieldName = <<>> /\ field = NoNode /\ fragmentType = DEFAULT /\ printed = NotRun

InitMake ==
    /\ pc = "makeFragments"
    /\ IdleHandle /\ IdlePrint
    /\ schemaContents \in MakeSchemas
    /\ generator = "graphql"
    /\ modelConfigs \in MakeConfigs
    /\ fragments = NotMade

MakeFragments ==
    /\ pc = "makeFragments"
    /\ fragments' \in makeFragments(schemaContents, generator, modelConfigs)
    /\ pc' = "made"
    /\ UNCHANGED <<handleVars, schemaContents, generator, modelConfigs, printVars>>

NextMake == MakeFragments

SpecMake == InitMake /\ [][NextMake]_vars

-----------------------------------------------------------------------------
(* The command: handle() and what it calls (lines 61-210 and 519-645).     *)
(* A path is a text whose tokens are its segments, "/" and ".". The        *)
(* spinner and console output are left out, and so is argv.verbose, which  *)
(* decides a message only.                                                 *)

\* The most projects of a drawn configuration.
MaxProjects == 2

\* The last position of token x in text s, 0 when there is none.
RECURSIVE LastIndexOf(_, _)
LastIndexOf(s, x) ==
    IF s = <<>> THEN 0
    ELSE IF s[Len(s)] = x THEN Len(s)
    ELSE LastIndexOf(SubSeq(s, 1, Len(s) - 1), x)

\* getExtension, line 564: str.split('.').pop()
getExtension(str) == SubSeq(str, LastIndexOf(str, ".") + 1, Len(str))

\* outputPath.split('/').slice(0, -1).join('/'), lines 198 and 202
basePathOf(outputPath) == SubSeq(outputPath, 1, LastIndexOf(outputPath, "/") - 1)

\* path.join(dir, file) of a directory without a trailing separator
pathJoin(dir, file) == dir \o <<"/">> \o file

(* A file of the file system: a schema file stands for what importSchema,  *)
(* parse and buildASTSchema make of it, a JSON file for what JSON.parse    *)
(* makes of it (NoModelConfigs for the JSON text null).                    *)

NoSchema == [types |-> <<>>, query |-> Undefined, mutation |-> Undefined, subscription |-> Undefined]

SchemaFile(path, schema) ==
    [path |-> path, kind |-> "schema", schema |-> schema, json |-> NoModelConfigs, text |-> <<>>]
JsonFile(path, json) ==
    [path |-> path, kind |-> "json", schema |-> NoSchema, json |-> json, text |-> <<>>]
TextFile(path, text) ==
    [path |-> path, kind |-> "text", schema |-> NoSchema, json |-> NoModelConfigs, text |-> text]

\* fs.existsSync(path)
existsSync(fs, path) == \E i \in 1..Len(fs) : fs[i].path = path

readFile(fs, path) == fs[CHOOSE i \in 1..Len(fs) : fs[i].path = path]

\* fs.writeFileSync(path, text, { flag: "w" }): the file is replaced or made.
writeFileSync(fs, path, text) ==
    IF existsSync(fs, path)
    THEN [i \in 1..Len(fs) |-> IF fs[i].path = path THEN TextFile(path, text) ELSE fs[i]]
    ELSE Append(fs, TextFile(path, text))

\* The writes of a sequence of files, in order.
RECURSIVE writeFiles(_, _)
writeFiles(fs, files) ==
    IF files = <<>> THEN fs
    ELSE writeFiles(writeFileSync(fs, Head(files).path, Head(files).text), Tail(files))

(* A project of the configuration: its name, its schemaPath and its        *)
(* extensions: generate-fragments (generator, output, modelConfigs), the   *)
(* legacy fragments, prepare-bundle.output and bundle.output. A key that   *)
(* is absent is "" (generator) or Undefined (a path).                      *)

GenerateFragmentsExtension(defined, gen, output, mc) ==
    [defined |-> defined, generator |-> gen, output |-> output, modelConfigs |-> mc]

NoGenerateFragments == GenerateFragmentsExtension(FALSE, "", Undefined, Undefined)

Extensions(gf, legacy, prepareBundle, bundle) ==
    [generateFragments |-> gf, fragments |-> legacy, prepareBundle |-> prepareBundle, bundle |-> bundle]

ProjectConfig(name, schemaPath, ext) == [name |-> name, schemaPath |-> schemaPath, extensions |-> ext]

\* this.argv
Argv(project, save, output, gen) ==
    [project |-> project, save |-> save, output |-> output, generator |-> gen]

\* argv.project: absent, one name, or an array of names.
NoProject == [kind |-> "undefined", names |-> <<>>]
OneProject(name) == [kind |-> "string", names |-> <<name>>]
ProjectArray(names) == [kind |-> "array", names |-> names]

\* The project of a name.
projectOf(cfg, name) == cfg[CHOOSE i \in 1..Len(cfg) : cfg[i].name = name]

\* getProjectConfig, lines 143-167: the names of the projects to process, in
\* the order of Object.keys(projects). getProjects() is undefined for a
\* configuration without projects.
getProjectConfig(av, cfg) ==
    IF av.project.kind # "undefined" THEN [err |-> "", names |-> av.project.names]
    ELSE IF cfg = <<>> THEN [err |-> "No projects defined in config file", names |-> <<>>]
    ELSE [err |-> "", names |-> [i \in 1..Len(cfg) |-> cfg[i].name]]

\* determineGenerator, lines 602-615
determineGenerator(av, project) ==
    IF av.generator # "" THEN [err |-> "", v |-> av.generator]
    ELSE IF project.extensions.generateFragments.defined
            /\ project.extensions.generateFragments.generator # ""
        THEN [err |-> "", v |-> project.extensions.generateFragments.generator]
    ELSE [err |-> "Generator cannot be determined", v |-> ""]

\* Lines 173-179: the extension of a generator.
extensionOf(gen) ==
    IF gen = "multi-file-graphql" THEN "gql"
    ELSE IF gen = "graphql" THEN "graphql"
    ELSE "js"

\* determineFragmentsOutputPath, lines 623-645
determineFragmentsOutputPath(av, project, extension) ==
    IF av.output # Undefined
        THEN [err |-> "", v |-> pathJoin(av.output, project.name \o <<".", "fragments", ".", extension>>)]
    ELSE IF project.extensions.generateFragments.defined
            /\ project.extensions.generateFragments.output # Undefined
        THEN [err |-> "", v |-> project.extensions.generateFragments.output]
    ELSE [err |-> "Output path cannot be determined", v |-> <<>>]

\* determineInputSchema(undefined), lines 534-580
determineInputSchema(project, fs) ==
    LET schemaPath == IF project.extensions.prepareBundle # Undefined
                          THEN project.extensions.prepareBundle
                      ELSE IF project.extensions.bundle # Undefined
                          THEN project.extensions.bundle
                      ELSE project.schemaPath
    IN  IF schemaPath = Undefined
            THEN [err |-> "Input schema cannot be determined", v |-> <<>>]
        ELSE IF getExtension(schemaPath) \notin {<<"graphql">>, <<"gql">>}
            THEN [err |-> "Schema has an unsupported extension", v |-> <<>>]
        ELSE IF existsSync(fs, schemaPath) THEN [err |-> "", v |-> schemaPath]
        ELSE [err |-> "Schema not found", v |-> <<>>]

\* Lines 182-192: the tier configuration of the project.
loadModelConfigs(project, fs) ==
    LET gf == project.extensions.generateFragments
    IN  IF ~(gf.defined /\ gf.modelConfigs # Undefined) THEN [err |-> "", v |-> NoModelConfigs]
        ELSE IF ~existsSync(fs, gf.modelConfigs) THEN [err |-> "ENOENT", v |-> NoModelConfigs]
        ELSE IF ~readFile(fs, gf.modelConfigs).json.defined
            THEN [err |-> "Unable to parse modelConfigs file", v |-> NoModelConfigs]
        ELSE [err |-> "", v |-> readFile(fs, gf.modelConfigs).json]

\* What processFragments did: the error it threw ("" when none), the
\* arguments and the result of its call of makeFragments, the files it wrote
\* and the output path it returned.
Processed(err, gen, ast, mc, made, files, output) ==
    [err |-> err, generator |-> gen, schemaContents |-> ast, modelConfigs |-> mc,
     fragments |-> made, files |-> files, output |-> output]

\* Lines 197-209: the files of the fragments and the output path returned.
writeFragments(made, outputPath, extension, gen, ast, mc) ==
    IF made.kind = "throw" THEN Processed(TypeError, gen, ast, mc, made, <<>>, <<>>)
    ELSE IF Len(made.items) # 0 /\ made.items[1].name # Star THEN
        LET basePath == basePathOf(outputPath)
        IN  Processed("", gen, ast, mc, made,
                [i \in 1..Len(made.items) |->
                    TextFile(basePath \o <<"/">> \o made.items[i].name \o <<".", extension>>,
                             made.items[i].fragment)],
                basePath)
    ELSE IF Len(made.items) = 0 THEN Processed(TypeError, gen, ast, mc, made, <<>>, <<>>)
    ELSE Processed("", gen, ast, mc, made,
                   <<TextFile(outputPath, made.items[1].fragment)>>, outputPath)

\* processFragments(undefined), lines 169-210: its outcomes, one for each
\* outcome of makeFragments.
processFragments(av, project, fs) ==
    LET gen == determineGenerator(av, project)
        extension == extensionOf(gen.v)
        out == determineFragmentsOutputPath(av, project, extension)
        schema == determineInputSchema(project, fs)
        mc == loadModelConfigs(project, fs)
        threw(e) == {Processed(e, gen.v, NoSchema, NoModelConfigs, NotMade, <<>>, <<>>)}
    IN  IF gen.err # "" THEN threw(gen.err)
        ELSE IF out.err # "" THEN threw(out.err)
        ELSE IF schema.err # "" THEN threw(schema.err)
        ELSE IF mc.err # "" THEN threw(mc.err)
        ELSE LET ast == readFile(fs, schema.v).schema
             IN  {writeFragments(m, out.v, extension, gen.v, ast, mc.v) :
                     m \in makeFragments(ast, gen.v, mc.v)}

\* Lines 98-103: whether fragments() processes the project.
fragmentsConfigured(av, project) ==
    \/ av.project.kind # "undefined"
    \/ project.extensions.generateFragments.defined
    \/ project.extensions.fragments

\* Line 112: merge(this.project.extensions, { "generate-fragments": { output, generator } })
mergeExtension(project, output, gen) ==
    [project EXCEPT !.extensions.generateFragments.defined = TRUE,
                    !.extensions.generateFragments.output = output,
                    !.extensions.generateFragments.generator = gen]

\* Lines 520-522: the legacy fragments extension is deleted.
deleteLegacyFragments(project) == [project EXCEPT !.extensions.fragments = FALSE]

\* The configuration with the project of a name replaced.
withProject(cfg, name, project) ==
    [i \in 1..Len(cfg) |-> IF cfg[i].name = name THEN project ELSE cfg[i]]

(* The inputs of the model. *)

\* The names of the projects, by position in the configuration.
ProjectNames == << <<"app">>, <<"db">>, <<"api">> >>

\* A schema whose types all print, one with a field that printField throws
\* on ([[[ID]]]), and one without an object type besides the root types.
SmallSchema ==
    Schema(<<TypeDef(User, "GraphQLObjectType",
                     <<FieldDef(<<"id">>, <<"NonNull">>, ID), FieldDef(<<"post">>, <<>>, Post)>>),
             TypeDef(Post, "GraphQLObjectType",
                     <<FieldDef(<<"id">>, <<"NonNull">>, ID),
                       FieldDef(<<"author">>, <<"List", "NonNull">>, User)>>)>>)
ThrowingSchema ==
    Schema(<<TypeDef(Post, "GraphQLObjectType",
                     <<FieldDef(<<"tags">>, <<"List", "List", "List">>, ID)>>)>>)
RootsOnlySchema == Schema(<<>>)

SmallTiers ==
    ModelConfigs(<<ModelConfig(Post, <<Tier(PublicListing, <<(<<"id">>)>>),
                                       Tier(Admin, << <<"id">>, <<"author">> >>)>>)>>)

schemaPathOf(name) == name \o <<".", "graphql">>
bundlePathOf(name) == <<"dist", "/">> \o name \o <<".", "graphql">>
tiersPathOf(name) == name \o <<".", "tiers", ".", "json">>
configuredOutput(name, extension) ==
    <<"src", "/", "generated", "/">> \o name \o <<".", "fragments", ".", extension>>

\* A project and the files its paths name.
Setting(project, files) == [project |-> project, files |-> files]

\* A project that is configured in full: its generator, its output, its
\* tier configuration and its schema.
FullSetting(name, gen, extension, legacy, schema) ==
    Setting(ProjectConfig(name, schemaPathOf(name),
                Extensions(GenerateFragmentsExtension(TRUE, gen, configuredOutput(name, extension),
                                                      tiersPathOf(name)),
                           legacy, Undefined, Undefined)),
            <<SchemaFile(schemaPathOf(name), schema), JsonFile(tiersPathOf(name), SmallTiers)>>)

\* The settings a project of the given name is drawn from.
Settings(name) ==
    LET full == FullSetting(name, "graphql", "graphql", FALSE, SmallSchema)
        gf == full.project.extensions.generateFragments
    IN  {full,
         FullSetting(name, "js", "js", TRUE, SmallSchema),
         FullSetting(name, "multi-file-graphql", "gql", FALSE, SmallSchema),
         FullSetting(name, "multi-file-graphql", "gql", FALSE, RootsOnlySchema),
         FullSetting(name, "typescript", "graphql", FALSE, SmallSchema),
         FullSetting(name, "graphql", "graphql", FALSE, ThrowingSchema),
         \* neither a generator nor an output in the configuration
         [full EXCEPT !.project.extensions.generateFragments =
             GenerateFragmentsExtension(TRUE, "", Undefined, tiersPathOf(name))],
         \* no extension at all
         [full EXCEPT !.project.extensions.generateFragments = NoGenerateFragments],
         \* the legacy fragments extension alone
         [full EXCEPT !.project.extensions.generateFragments = NoGenerateFragments,
                      !.project.extensions.fragments = TRUE],
         \* no tier configuration
         [full EXCEPT !.project.extensions.generateFragments.modelConfigs = Undefined],
         \* a tier configuration that is the JSON text null
         [full EXCEPT !.files = <<SchemaFile(schemaPathOf(name), SmallSchema),
                                  JsonFile(tiersPathOf(name), NoModelConfigs)>>],
         \* a schema that is no .graphql or .gql file
         [full EXCEPT !.project.schemaPath = name \o <<".", "json">>],
         \* a bundle that was not made
         [full EXCEPT !.project.extensions.prepareBundle = bundlePathOf(name)],
         \* the schema of the old bundle extension, and no schemaPath
         [full EXCEPT !.project.schemaPath = Undefined,
                      !.project.extensions.bundle = bundlePathOf(name),
                      !.files = <<SchemaFile(bundlePathOf(name), SmallSchema),
                                  JsonFile(tiersPathOf(name), SmallTiers)>>],
         \* no schema at all
         [full EXCEPT !.project.schemaPath = Undefined]}

\* The sequences of settings of 0..n projects, the project at position i
\* named ProjectNames[i].
RECURSIVE SettingLists(_)
SettingLists(n) ==
    IF n = 0 THEN {<<>>}
    ELSE LET R == SettingLists(n - 1)
         IN  R \cup {Append(r, x) : r \in {q \in R : Len(q) = n - 1}, x \in Settings(ProjectNames[n])}

\* The values of argv.project for a configuration: absent, the first
\* project's name, or the array of all names from the last to the first.
ArgvProjects(cfg) ==
    {NoProject}
    \cup (IF cfg = <<>> THEN {}
          ELSE {OneProject(cfg[1].name), ProjectArray(Reverse([i \in 1..Len(cfg) |-> cfg[i].name]))})

Init ==
    /\ pc = "handle"
    /\ \E ss \in SettingLists(MaxProjects) :
          /\ config = [i \in 1..Len(ss) |-> ss[i].project]
          /\ disk = flatten([i \in 1..Len(ss) |-> ss[i].files])
    /\ argv \in {Argv(p, save, output, gen) :
                    p \in ArgvProjects(config), save \in BOOLEAN,
                    output \in {Undefined, <<"out">>}, gen \in {"", "typescript"}}
    /\ projectIdx = 0 /\ savedConfigs = <<>> /\ thrown = ""
    /\ schemaContents = NoSchema
    /\ IdleMake /\ IdlePrint

\* Object.keys(projects) of the run.
projectNamesOfRun == getProjectConfig(argv, config).names

\* this.project, once setCurrentProject has run.
currentProject == projectOf(config, projectNamesOfRun[projectIdx])

\* Lines 62-67: the projects are got, or handle() fails.
GetProjectConfig ==
    /\ pc = "handle"
    /\ LET projects == getProjectConfig(argv, config)
       IN  /\ thrown' = projects.err
           /\ pc' = IF projects.err # "" THEN "done" ELSE "loop"
    /\ UNCHANGED <<argv, config, projectIdx, disk, savedConfigs, makeVars, printVars>>

\* Lines 70-73: the next project becomes the current project.
SetCurrentProject ==
    /\ pc = "loop"
    /\ projectIdx < Len(projectNamesOfRun)
    /\ projectIdx' = projectIdx + 1
    /\ pc' = "fragments"
    /\ UNCHANGED <<argv, config, disk, savedConfigs, thrown, makeVars, printVars>>

\* fragments(), lines 93-124: the project is processed or, when it is not
\* configured, passed over; an error of processFragments leaves handle().
Fragments ==
    /\ pc = "fragments"
    /\ \E r \in IF fragmentsConfigured(argv, currentProject)
                THEN processFragments(argv, currentProject, disk)
                ELSE {Processed("", "", NoSchema, NoModelConfigs, NotMade, <<>>, <<>>)} :
          /\ generator' = r.generator
          /\ schemaContents' = r.schemaContents
          /\ modelConfigs' = r.modelConfigs
          /\ fragments' = r.fragments
          /\ disk' = writeFiles(disk, r.files)
          /\ config' = IF r.err = "" /\ fragmentsConfigured(argv, currentProject)
                       THEN withProject(config, currentProject.name,
                                        mergeExtension(currentProject, r.output, r.generator))
                       ELSE config
          /\ thrown' = r.err
          /\ pc' = IF r.err # "" THEN "done" ELSE "save"
    /\ UNCHANGED <<argv, projectIdx, savedConfigs, printVars>>

\* save() and saveConfig(), lines 126-141 and 519-524.
Save ==
    /\ pc = "save"
    /\ IF argv.save
       THEN /\ config' = withProject(config, currentProject.name,
                                     deleteLegacyFragments(currentProject))
            /\ savedConfigs' = Append(savedConfigs, deleteLegacyFragments(currentProject))
       ELSE UNCHANGED <<config, savedConfigs>>
    /\ pc' = "loop"
    /\ UNCHANGED <<argv, projectIdx, disk, thrown, makeVars, printVars>>

\* Line 82: every project was processed, handle() returns.
Return ==
    /\ pc = "loop"
    /\ projectIdx = Len(projectNamesOfRun)
    /\ pc' = "done"
    /\ UNCHANGED <<argv, config, projectIdx, disk, savedConfigs, thrown, makeVars, printVars>>

Next == GetProjectConfig \/ SetCurrentProject \/ Fragments \/ Save \/ Return

Spec == Init /\ [][Next]_vars

-----------------------------------------------------------------------------
(* Reading a fragment's text back: its name, its type, its lines.          *)

\* The name after "fragment ".
FragmentName(text) == SplitFirst(SubSeq(text, 3, Len(text)))

\* The type after " on ".
OnType(text) ==
    LET n == Len(FragmentName(text))
    IN  SplitFirst(SubSeq(text, n + 6, Len(text)))

RECURSIVE SplitLines(_)
SplitLines(s) ==
    IF s = <<>> THEN << <<>> >>
    ELSE IF Head(s) = NL THEN << <<>> >> \o SplitLines(Tail(s))
    ELSE LET r == SplitLines(Tail(s))
         IN  << <<Head(s)>> \o r[1] >> \o Tail(r)

RECURSIVE Indent(_)
Indent(line) == IF line = <<>> \/ Head(line) # SP THEN 0 ELSE 1 + Indent(Tail(line))

Strip(line) == SubSeq(line, Indent(line) + 1, Len(line))

\* The lines of a fragment's text at an indentation of n spaces, stripped,
\* the empty lines and the closing braces left out.
LinesAt(text, n) ==
    LET ls == SelectSeq(SplitLines(text),
                        LAMBDA l : Indent(l) = n /\ Strip(l) # <<>> /\ Strip(l) # <<"}">>)
    IN  [i \in 1..Len(ls) |-> Strip(ls[i])]

IsSpread(line) == line # <<>> /\ Head(line) = "..."

\* The targets of every spread of a text, nested or leading.
SpreadTargets(text) ==
    LET ls == SelectSeq(SplitLines(text), LAMBDA l : IsSpread(Strip(l)))
    IN  {Tail(Strip(ls[i])) : i \in 1..Len(ls)}

\* The selection of a fragment: for each of its top-level lines the spread
\* it is, or the name of the field it prints.
TopLevel(text) ==
    LET ls == LinesAt(text, 2)
    IN  [i \in 1..Len(ls) |-> IF IsSpread(ls[i]) THEN ls[i] ELSE SplitFirst(ls[i])]

\* The targets of the spreads nested in a fragment's fields, in order.
NestedSpreads(text) ==
    LET ls == LinesAt(text, 4)
    IN  [i \in 1..Len(ls) |-> Tail(ls[i])]

Range(q) == {q[i] : i \in 1..Len(q)}

\* The fragments a run of makeFragments puts into what it returns: the
\* deep fragments alone for the multi-file generator, else all three lists.
Emitted ==
    IF generator = "multi-file-graphql" THEN fragments.deepFragments
    ELSE fragments.standardFragments \o fragments.noRelationsFragments \o fragments.deepFragments

EmittedNames == {FragmentName(Emitted[i].fragment) : i \in 1..Len(Emitted)}

MadeOk == pc = "made" /\ fragments.kind = "array"

\* The object types makeFragments builds fragments for.
FragmentTypeNames == Range(objectTypeNames(schemaContents))

\* The object types of the schema, root types among them.
ObjectTypeNames ==
    {schemaContents.types[i].name : i \in {j \in 1..Len(schemaContents.types) :
                                           schemaContents.types[j].kind = "GraphQLObjectType"}}

\* The fields of type T that printField prints in mode ft.
Printable(T, ft) ==
    LET fs == getType(schemaContents, T).fields
    IN  SelectSeq(fs, LAMBDA fd :
            printField(fd.name, GraphQLField(fd), schemaContents, ft).kind = "string")

\* The fragments of a list that are on type T.
FragmentsOn(list, T) == SelectSeq(list, LAMBDA f : OnType(f.fragment) = T)

-----------------------------------------------------------------------------
(* The claims about printField. *)

\* The field of the same name whose type is the bare named type.
BareField == GraphQLField(FieldDef(fieldName, <<>>, field.t))

\* C1: a field whose type is any nesting of List and NonNull around a named
\* type T is printed exactly as the bare field of type T is: the field name
\* for a scalar or enum, the nested spread for an object (nothing in
\* NoRelations mode).
C1_WrappedPrintsAsBare ==
    pc = "printed" =>
        printed = printField(fieldName, BareField, schemaContents, fragmentType)

-----------------------------------------------------------------------------
(* The claims about makeFragments. *)

\* C2: without a tier configuration makeFragments completes without an
\* error, and every type with a printed deep field has exactly one deep
\* fragment, <TypeName>Full, holding all its deep fields.
C2_NoTierConfigSupported ==
    (pc = "made" /\ ~modelConfigs.defined) =>
        /\ fragments.kind = "array"
        /\ \A T \in FragmentTypeNames :
              Printable(T, DEEP) # <<>> =>
                  LET on == FragmentsOn(fragments.deepFragments, T)
                  IN  /\ Len(on) = 1
                      /\ FragmentName(on[1].fragment) = T \o Full
                      /\ TopLevel(on[1].fragment)
                            = [i \in 1..Len(Printable(T, DEEP)) |-> Printable(T, DEEP)[i].name]

\* C3 as stated: every spread of every emitted fragment names a fragment the
\* same run emits.
C3_EverySpreadResolves ==
    MadeOk => LET names == EmittedNames
              IN  \A i \in 1..Len(Emitted) : SpreadTargets(Emitted[i].fragment) \subseteq names

\* Whether the run builds no fragment <T><label> for a type T of the tier
\* configuration: T is skipped, or its entry does not declare the label.
TierSkipped(T, label) ==
    \/ T \notin FragmentTypeNames
    \/ Printable(T, DEEP) = <<>>
    \/ ~\E k \in 1..Len(modelConfigOf(modelConfigs, T).tiers) :
          modelConfigOf(modelConfigs, T).tiers[k].suffix = label

\* The names of the fragments a run skips: <T>NoNesting and <T>Full of an
\* object type T that is a root type or has no printed field in that mode,
\* and <T>PublicListing / <T>AdminListing of a type T of the tier
\* configuration that is skipped or whose entry does not declare that tier.
SkippedNames ==
    {T \o NO_RELATIONS : T \in {U \in ObjectTypeNames :
        U \notin FragmentTypeNames \/ Printable(U, NO_RELATIONS) = <<>>}}
    \cup {T \o Full : T \in {U \in ObjectTypeNames :
        U \notin FragmentTypeNames \/ Printable(U, DEEP) = <<>>}}
    \cup {p[1] \o p[2] : p \in {q \in Range(modelNamesOf(modelConfigs)) \X {PublicListing, AdminListing} :
                                TierSkipped(q[1], q[2])}}

\* C3, amended: every spread of every emitted fragment names a fragment the
\* same run emits, or one the run skipped: of a root type, of a type without
\* a printed field in the target's mode, or of a tier the target type's
\* entry does not declare.
C3_SpreadResolvesUnlessSkipped ==
    MadeOk => LET names == EmittedNames \cup SkippedNames
              IN  \A i \in 1..Len(Emitted) : SpreadTargets(Emitted[i].fragment) \subseteq names

\* A run whose fragments hold a spread that resolves and one that does not.
C3_Witness ==
    /\ MadeOk
    /\ \E i \in 1..Len(Emitted) :
          \E t \in SpreadTargets(Emitted[i].fragment) : t \in EmittedNames
    /\ \E i \in 1..Len(Emitted) :
          \E t \in SpreadTargets(Emitted[i].fragment) : t \in SkippedNames \ EmittedNames

\* C4: no two emitted fragments have the same fragment name.
C4_FragmentNamesUnique ==
    MadeOk => LET names == [i \in 1..Len(Emitted) |-> FragmentName(Emitted[i].fragment)]
              IN  \A i, j \in 1..Len(names) : i # j => names[i] # names[j]

\* C5: no deep or tiered fragment holds "DeepNesting" once it is emitted.
C5_NoDeepNestingLeft ==
    MadeOk => \A i \in 1..Len(fragments.deepFragments) :
                  ~Contains(fragments.deepFragments[i].fragment, DEEP)

\* A run with a tiered fragment and a Full fragment that both nest a spread.
C5_Witness ==
    /\ MadeOk
    /\ \E i \in 1..Len(fragments.deepFragments) :
          /\ fragments.deepFragments[i].name = Post \o Admin
          /\ NestedSpreads(fragments.deepFragments[i].fragment) # <<>>
    /\ \E i \in 1..Len(fragments.deepFragments) :
          /\ fragments.deepFragments[i].name = User \o Full
          /\ NestedSpreads(fragments.deepFragments[i].fragment) # <<>>

\* C6: a type without a printed field in a mode has no fragment of that mode.
C6_NoFragmentWithoutFields ==
    MadeOk => \A T \in FragmentTypeNames :
        /\ Printable(T, DEFAULT) = <<>> => FragmentsOn(fragments.standardFragments, T) = <<>>
        /\ Printable(T, NO_RELATIONS) = <<>> => FragmentsOn(fragments.noRelationsFragments, T) = <<>>
        /\ Printable(T, DEEP) = <<>> => FragmentsOn(fragments.deepFragments, T) = <<>>

\* A run with a type that prints a relation only: it has its Default and
\* deep fragments and no NoRelations fragment; and a type that prints nothing.
C6_Witness ==
    /\ MadeOk
    /\ Printable(User, NO_RELATIONS) = <<>> /\ Printable(User, DEFAULT) # <<>>
    /\ FragmentsOn(fragments.standardFragments, User) # <<>>
    /\ FragmentsOn(fragments.deepFragments, User) # <<>>
    /\ Printable(Post, DEEP) = <<>>
    /\ Len(Emitted) > 1

\* The tiers of the entry of type T.
TiersOf(T) == modelConfigOf(modelConfigs, T).tiers

\* The spread a tier's fragment is claimed to start with.
LeadingSpread(T, label) ==
    IF label = Admin THEN << <<"...">> \o T \o AdminListing >>
    ELSE IF label \in {AdminListing, Public} THEN << <<"...">> \o T \o PublicListing >>
    ELSE <<>>

\* The names of the deep fields of T that are in an allow-list, in T's order.
AllowedNames(T, allowlist) ==
    LET fs == SelectSeq(Printable(T, DEEP), LAMBDA fd : fd.name \in Range(allowlist))
    IN  [i \in 1..Len(fs) |-> fs[i].name]

LabelOf(f, T) == SubSeq(f.name, Len(T) + 1, Len(f.name))

\* The spread claimed for a field of object type U in a fragment of a tier.
RewrittenTarget(U, label) ==
    IF hasModelConfig(modelConfigs, U)
    THEN U \o (IF Contains(label, Admin) THEN AdminListing ELSE PublicListing)
    ELSE U \o Full

\* The spreads claimed for the fields a fragment on T selects.
ExpectedNested(f, T) ==
    LET selected == Range(TopLevel(f.fragment))
        fs == SelectSeq(Printable(T, DEEP), LAMBDA fd :
                  /\ fd.name \in selected
                  /\ NamedConstructor(schemaContents, fd.t) = "GraphQLObjectType")
    IN  [i \in 1..Len(fs) |-> RewrittenTarget(fs[i].t, LabelOf(f, T))]

\* C10: in every deep fragment the spread of an object type U targets
\* <U>AdminListing when U has an entry and the fragment's tier label contains
\* "Admin", <U>PublicListing when U has an entry and it does not (the Full
\* fragment too), and <U>Full when U has no entry.
C10_NestedSpreadRewritten ==
    MadeOk => \A T \in FragmentTypeNames :
        LET on == FragmentsOn(fragments.deepFragments, T)
        IN  \A i \in 1..Len(on) : NestedSpreads(on[i].fragment) = ExpectedNested(on[i], T)

\* A run whose fragments PostPublic and PostAdminListing spread User, a type
\* with an entry.
C10_Witness ==
    /\ MadeOk
    /\ hasModelConfig(modelConfigs, User)
    /\ \E i \in 1..Len(fragments.deepFragments) :
          /\ fragments.deepFragments[i].name = Post \o Public
          /\ NestedSpreads(fragments.deepFragments[i].fragment) = <<User \o PublicListing>>
    /\ \E i \in 1..Len(fragments.deepFragments) :
          /\ fragments.deepFragments[i].name = Post \o AdminListing
          /\ NestedSpreads(fragments.deepFragments[i].fragment) = <<User \o AdminListing>>

-----------------------------------------------------------------------------
(* The claims about handle(). *)

\* The three generator labels the command knows.
RecognizedGenerators == {"js", "graphql", "multi-file-graphql"}

\* Whether fragments() has just processed the current project to its end.
FragmentsDone == pc = "save" /\ fragments.kind = "array"

\* The file the generator "graphql" writes for the current project.
SingleDocumentPath == determineFragmentsOutputPath(argv, currentProject, extensionOf("graphql")).v

\* C7: a project whose generator is none of the three labels is handled as
\* the generator "graphql" is: what is written is the one GraphQL document of
\* the three lists, and it is written to the file the generator "graphql"
\* writes, whose derived name has the extension graphql.
C7_UnknownGeneratorAsSingleDocument ==
    (FragmentsDone /\ generator \notin RecognizedGenerators) =>
        LET doc == graphqlDocument(fragments.standardFragments, fragments.noRelationsFragments,
                                   fragments.deepFragments)
        IN  /\ fragments.items = <<Fragment(Star, doc)>>
            /\ existsSync(disk, SingleDocumentPath)
            /\ readFile(disk, SingleDocumentPath).text = doc
            /\ currentProject.extensions.generateFragments.output = SingleDocumentPath

\* Whether saveConfig was called for the project of a name.
Saved(name) == \E i \in 1..Len(savedConfigs) : savedConfigs[i].name = name

\* C8: when handle() is left, every project of the run has been the current
\* project of fragments(), whatever error another project raised, and with
\* the save flag every project that raised none has been saved.
C8_ErrorDoesNotAbortRemaining ==
    (pc = "done" /\ getProjectConfig(argv, config).err = "") =>
        /\ projectIdx = Len(projectNamesOfRun)
        /\ \A i \in 1..Len(projectNamesOfRun) :
              (argv.save /\ (thrown = "" \/ i # projectIdx)) => Saved(projectNamesOfRun[i])

-----------------------------------------------------------------------------
(* The claim about the fragment modes: printField and makeFragments, each  *)
(* on its own drawn inputs, in one specification.                          *)

InitModes == InitField \/ InitMake

NextModes == PrintField \/ MakeFragments

SpecModes == InitModes /\ [][NextModes]_vars

\* The category lines 450-482 find for the drawn field: the constructor name
\* printField ends its unwrapping with, "error" when the unwrapping throws.
Category ==
    LET s == NonNullStep(schemaContents,
                 ListStep(schemaContents, field,
                          ConstructorName(schemaContents, field.w, field.t)))
    IN  IF s.err THEN "error" ELSE s.ctor

\* The block claimed for an object field: the field's name and, one level
\* in, the spread of the fragment of its target type with a suffix.
SpreadBlock(name, target, suffix) ==
    name \o <<" ", "{", "\n", " ", " ", " ", " ", "...">> \o target \o suffix
         \o <<"\n", " ", " ", "}">>

\* The names of the object fields of type T that a mode other than
\* NoRelations prints, in T's order.
ObjectFieldTargets(T) ==
    LET fs == SelectSeq(Printable(T, DEFAULT), LAMBDA fd :
                  NamedConstructor(schemaContents, fd.t) = "GraphQLObjectType")
    IN  [i \in 1..Len(fs) |-> fs[i].t]

\* C11: the mode alone decides how a field of the object category is
\* printed: not at all in NoRelations mode, with the spread of
\* <Target>NoNesting in Default mode, of <Target>DeepNesting in Deep mode; a
\* field of the scalar or enum category is printed as its name in every mode.
\* So no NoRelations fragment holds a spread, and every spread of a Default
\* fragment names <Target>NoNesting, a fragment without a spread.
C11_ModeDecidesObjectField ==
    /\ pc = "printed" =>
          /\ Category \in {"GraphQLScalarType", "GraphQLEnumType"} =>
                printed = Returned(fieldName)
          /\ (Category = "GraphQLObjectType" /\ fragmentType = <<"No", "Nesting">>) =>
                printed = Null
          /\ (Category = "GraphQLObjectType" /\ fragmentType = <<>>) =>
                printed = Returned(SpreadBlock(fieldName, field.t, <<"No", "Nesting">>))
          /\ (Category = "GraphQLObjectType" /\ fragmentType = <<"Deep", "Nesting">>) =>
                printed = Returned(SpreadBlock(fieldName, field.t, <<"Deep", "Nesting">>))
    /\ MadeOk =>
          /\ \A i \in 1..Len(fragments.noRelationsFragments) :
                SpreadTargets(fragments.noRelationsFragments[i].fragment) = {}
          /\ \A i \in 1..Len(fragments.standardFragments) :
                LET f == fragments.standardFragments[i]
                IN  /\ NestedSpreads(f.fragment)
                          = [k \in 1..Len(ObjectFieldTargets(f.name)) |->
                                ObjectFieldTargets(f.name)[k] \o <<"No", "Nesting">>]
                    /\ SpreadTargets(f.fragment) = Range(NestedSpreads(f.fragment))
                    /\ \A j \in 1..Len(Emitted) :
                          FragmentName(Emitted[j].fragment) \in SpreadTargets(f.fragment)
                              => SpreadTargets(Emitted[j].fragment) = {}

\* A list of non-null objects printed in Default mode.
C11_Witness ==
    /\ pc = "printed"
    /\ field.w = <<"List", "NonNull">> /\ field.t = Comment
    /\ Category = "GraphQLObjectType"
    /\ fragmentType = DEFAULT
    /\ printed.kind = "string"

====
